---- MODULE Spec2Model ----
(***************************************************************************)
(* A model of unbalanced_dataset/pipeline.py: the Pipeline class (a chain  *)
(* of transforms and resamplers with a final estimator), _name_estimators  *)
(* and make_pipeline.                                                      *)
(*                                                                         *)
(* Strings that the code takes apart or builds (step names, type names,    *)
(* fit-parameter keys) are sequences of one-character strings, so that     *)
(* lower(), "%d" and split('__', 1) are computed and not assumed.          *)
(* Data (X) and labels (y) are small integers; the step objects are        *)
(* user-supplied collaborators, modelled by a family of estimator classes  *)
(* with fixed capability sets and simple deterministic behaviour.          *)
(***************************************************************************)
EXTENDS Integers, Sequences, FiniteSets, TLC

VARIABLES pc, arg, made, steps, learned, result

vars == <<pc, arg, made, steps, learned, result>>

(* ------------------------------ bounds -------------------------------- *)

\* most steps of a pipeline of arbitrary classes the methods are called on
MaxSteps == 2
\* most steps of a pipeline of the common classes the methods are called on
MaxChain == 3
\* longest list of (name, step) pairs handed to Pipeline(...)
MaxArgs == 2
\* longest list of estimators handed to make_pipeline(...)
MaxEsts == 3
\* X ranges over 0..MaxData
MaxData == 2
\* y ranges over 0..MaxLabel
MaxLabel == 1
\* most keys in one **fit_params
MaxParams == 2

\* Python's None (a missing y, a call that returns no data)
None == -1

DataVals == 0 .. MaxData
LabelVals == 0 .. MaxLabel

(* ------------------------- the step objects --------------------------- *)

\* The estimator classes the steps are instances of.
Estimators ==
  {"Scaler", "Transformer", "Sampler", "Hybrid", "FitSampler",
   "Classifier", "FitTransformer", "NoFit"}

\* type(estimator).__name__
TypeName(e) ==
  CASE e = "Scaler"         -> <<"S", "c">>
    [] e = "Transformer"    -> <<"T", "f">>
    [] e = "Sampler"        -> <<"S", "m">>
    [] e = "Hybrid"         -> <<"S", "M">>
    [] e = "FitSampler"     -> <<"F", "s">>
    [] e = "Classifier"     -> <<"C", "l">>
    [] e = "FitTransformer" -> <<"F", "t">>
    [] e = "NoFit"          -> <<"N", "f">>

\* The methods an instance of the class has: what hasattr probes.
Caps(e) ==
  CASE e = "Scaler"         -> {"fit", "fit_transform", "transform", "inverse_transform"}
    [] e = "Transformer"    -> {"fit", "transform", "inverse_transform"}
    [] e = "Sampler"        -> {"fit", "sample", "fit_sample"}
    [] e = "Hybrid"         -> {"fit", "fit_transform", "fit_sample", "transform", "sample"}
    [] e = "FitSampler"     -> {"fit", "sample"}
    [] e = "Classifier"     -> {"fit", "predict", "fit_predict", "predict_proba",
                                "decision_function", "predict_log_proba", "score"}
    [] e = "FitTransformer" -> {"fit_transform", "transform", "inverse_transform"}
    [] e = "NoFit"          -> {"transform"}

hasattr(e, m) == m \in Caps(e)

\* What the class's transform adds to the data (modulo the data range).
Shift(e) ==
  CASE e \in {"Scaler", "Sampler", "FitSampler", "Classifier"} -> 1
    [] OTHER -> 2

FitLike == {"fit", "fit_transform", "fit_sample"}

\* The methods that fit the object they are called on.
Fitting == FitLike \cup {"fit_predict"}

\* The data a method of step class e returns for (x, y): <<X, y>>.
\* fit returns self, so the caller's data stays as it is.
MethodOutput(e, m, x, y) ==
  CASE m \in {"transform", "fit_transform"} -> <<(x + Shift(e)) % (MaxData + 1), y>>
    [] m = "inverse_transform" ->
         <<(x + (MaxData + 1) - (Shift(e) % (MaxData + 1))) % (MaxData + 1), y>>
    [] m \in {"sample", "fit_sample"} ->
         <<(x + Shift(e)) % (MaxData + 1),
           IF y = None THEN None ELSE (y + 1) % (MaxLabel + 1)>>
    [] OTHER -> <<x, y>>

(* ------------------------------ strings ------------------------------- *)

\* str.lower(), character by character
LowerChar(c) ==
  CASE c = "S" -> "s" [] c = "T" -> "t" [] c = "M" -> "m" [] c = "F" -> "f"
    [] c = "C" -> "c" [] c = "N" -> "n" [] OTHER -> c

lower(s) == [i \in 1 .. Len(s) |-> LowerChar(s[i])]

DigitChar(d) ==
  CASE d = 0 -> "0" [] d = 1 -> "1" [] d = 2 -> "2" [] d = 3 -> "3" [] d = 4 -> "4"
    [] d = 5 -> "5" [] d = 6 -> "6" [] d = 7 -> "7" [] d = 8 -> "8" [] d = 9 -> "9"

\* "%d" % n for n >= 0
RECURSIVE FormatInt(_)
FormatInt(n) ==
  IF n < 10 THEN <<DigitChar(n)>> ELSE FormatInt(n \div 10) \o <<DigitChar(n % 10)>>

\* The least index >= i at which "__" starts in s, 0 when there is none.
RECURSIVE FindSep(_, _)
FindSep(s, i) ==
  IF i + 1 > Len(s) THEN 0
  ELSE IF s[i] = "_" /\ s[i + 1] = "_" THEN i
  ELSE FindSep(s, i + 1)

\* The greatest index <= i at which "__" starts in s, 0 when there is none.
RECURSIVE FindLastSep(_, _)
FindLastSep(s, i) ==
  IF i < 1 THEN 0
  ELSE IF s[i] = "_" /\ s[i + 1] = "_" THEN i
  ELSE FindLastSep(s, i - 1)

\* pname.rsplit('__', 1): split at the last "__"
str_rsplit(s) ==
  LET i == FindLastSep(s, Len(s) - 1) IN
  IF i = 0 THEN <<s>>
  ELSE <<SubSeq(s, 1, i - 1), SubSeq(s, i + 2, Len(s))>>

\* pname.split('__', 1): the list of parts, one part when "__" does not occur
str_split(s) ==
  LET i == FindSep(s, 1) IN
  IF i = 0 THEN <<s>>
  ELSE <<SubSeq(s, 1, i - 1), SubSeq(s, i + 2, Len(s))>>

(* ----------------------------- inputs --------------------------------- *)

SeqsUpTo(S, n) == UNION {[1 .. k -> S] : k \in 0 .. n}

\* The names a caller gives its steps.
StepNames == {<<"s">>, <<"t">>}

\* (name, estimator) pairs
StepPairs == [name : StepNames, est : Estimators]

\* The keys a caller passes in **fit_params:
\* "t__q", "s_p" (no separator) and "s__p__q" (two separators).
FitParamKeys ==
  {<<"t", "_", "_", "q">>, <<"s", "_", "p">>, <<"s", "_", "_", "p", "_", "_", "q">>}

\* A **fit_params dict in the order six.iteritems walks it: a dict's order is
\* arbitrary, so every order of every key set is an input.
FitParams ==
  {o \in SeqsUpTo(FitParamKeys, MaxParams) :
     \A i, j \in 1 .. Len(o) : i # j => o[i] # o[j]}

\* The arguments of the fitting methods: every (X, y) without fit parameters,
\* and every fit_params with one (X, y).
FitInputs ==
  {in \in [X : DataVals, y : LabelVals, fit_params : FitParams] :
     in.fit_params = << >> \/ (in.X = 0 /\ in.y = 0)}

(* -------------------------- _name_estimators -------------------------- *)

Occurrences(names, name) == Cardinality({i \in 1 .. Len(names) : names[i] = name})

\* The loop of lines 428-432 without line 432: the count is never decremented.
RECURSIVE NameLoopNoDecrement(_, _, _)
NameLoopNoDecrement(names, namecount, i) ==
  IF i = 0 THEN names
  ELSE LET name == names[i] IN
       IF name \in DOMAIN namecount
       THEN NameLoopNoDecrement(
              [names EXCEPT ![i] = name \o <<"-">> \o FormatInt(namecount[name])],
              namecount, i - 1)
       ELSE NameLoopNoDecrement(names, namecount, i - 1)

\* lines 428-432: the loop over reversed(range(len(estimators)))
RECURSIVE NameLoop(_, _, _)
NameLoop(names, namecount, i) ==
  IF i = 0 THEN names
  ELSE LET name == names[i] IN
       IF name \in DOMAIN namecount
       THEN NameLoop([names EXCEPT ![i] = name \o <<"-">> \o FormatInt(namecount[name])],
                     [namecount EXCEPT ![name] = namecount[name] - 1],
                     i - 1)
       ELSE NameLoop(names, namecount, i - 1)

_name_estimators(estimators) ==
  LET names == [i \in 1 .. Len(estimators) |-> lower(TypeName(estimators[i]))]
      counted == {names[i] : i \in 1 .. Len(names)}
      \* lines 420-426: count, then delete the names that occur once
      namecount == [n \in {m \in counted : Occurrences(names, m) # 1} |->
                      Occurrences(names, n)]
      named == NameLoop(names, namecount, Len(names))
  IN [i \in 1 .. Len(estimators) |-> [name |-> named[i], est |-> estimators[i]]]

(* --------------------------- Pipeline.__init__ ------------------------ *)

\* lines 102-104: what an intermediate step must have
IntermediateOk(t) ==
  (hasattr(t, "fit") \/ hasattr(t, "fit_transform") \/ hasattr(t, "fit_sample"))
  /\ (hasattr(t, "transform") \/ hasattr(t, "sample"))

\* Line 109 asking for any fit-like method.
FinalOkFitLike(estimator) ==
  hasattr(estimator, "fit") \/ hasattr(estimator, "fit_transform")
  \/ hasattr(estimator, "fit_sample")

\* line 109: what the last step must have
FinalOk(estimator) == hasattr(estimator, "fit")

\* __init__ with the checks of lines 101-112 before the check of line 92.
InitOutcomeTypesFirst(ss) ==
  IF Len(ss) = 0 THEN "ValueError"
  ELSE IF \E i \in 1 .. Len(ss) - 1 : ~IntermediateOk(ss[i].est) THEN "TypeError"
  ELSE IF ~FinalOk(ss[Len(ss)].est) THEN "TypeError"
  ELSE IF Cardinality({ss[i].name : i \in 1 .. Len(ss)}) # Len(ss) THEN "ValueError"
  ELSE "ok"

\* How __init__ ends for a step list: "ok" or the exception it raises.
InitOutcome(ss) ==
  \* line 91: zip(*steps) of an empty list does not unpack into two names
  IF Len(ss) = 0 THEN "ValueError"
  \* line 92: len(dict(steps)) != len(steps)
  ELSE IF Cardinality({ss[i].name : i \in 1 .. Len(ss)}) # Len(ss) THEN "ValueError"
  ELSE IF \E i \in 1 .. Len(ss) - 1 : ~IntermediateOk(ss[i].est) THEN "TypeError"
  ELSE IF ~FinalOk(ss[Len(ss)].est) THEN "TypeError"
  ELSE "ok"

NoFault == [step |-> 0, method |-> "none"]
\* A step's learned state: the fit-like method that last fitted it.
Unfitted == "none"

\* What the last call on the pipeline was and how it ended.
Outcome(op, status, X, y, params, value, calls, fault) ==
  [op |-> op, status |-> status, X |-> X, y |-> y, params |-> params,
   value |-> value, calls |-> calls, fault |-> fault]

Construct(op, ss, ests) ==
  LET st == InitOutcome(ss) IN
  /\ pc = "new"
  /\ arg' = ss
  /\ made' = ests
  /\ pc' = IF st = "ok" THEN "built" ELSE "failed"
  /\ steps' = IF st = "ok" THEN ss ELSE << >>
  /\ learned' = IF st = "ok" THEN [i \in 1 .. Len(ss) |-> Unfitted] ELSE << >>
  /\ result' = Outcome(op, st, None, None, << >>, <<None, None>>, << >>, NoFault)

\* Pipeline(steps)
Pipeline__init__ == \E ss \in SeqsUpTo(StepPairs, MaxArgs) : Construct("__init__", ss, << >>)

\* make_pipeline(*steps)
make_pipeline ==
  \E ests \in SeqsUpTo(Estimators, MaxEsts) :
    Construct("make_pipeline", _name_estimators(ests), ests)

(* ------------------------- calls on the steps ------------------------- *)

\* The running state of one call on the pipeline: the data (Xt, yt), the steps'
\* learned state, the calls made on the steps so far, the split fit parameters,
\* and "ok" or the exception that ended the call (with the missing attribute
\* when a step object lacks the method called on it).
Start(ss, lrn, X, y) ==
  [X |-> X, y |-> y, learned |-> lrn, calls |-> << >>,
   fps |-> [n \in {ss[i].name : i \in 1 .. Len(ss)} |-> {}],
   status |-> "ok", fault |-> NoFault]

Raise(r, exc, i, m) == [r EXCEPT !.status = exc, !.fault = [step |-> i, method |-> m]]

\* step.m(Xt, y, **params) on step i: AttributeError when the object has no m;
\* a fit-like method replaces the step's learned state; the data returned
\* becomes Xt (and yt, for the resampling methods).
Call(ss, r, i, m, y, params) ==
  IF r.status # "ok" THEN r
  ELSE IF ~hasattr(ss[i].est, m) THEN Raise(r, "AttributeError", i, m)
  ELSE LET out == MethodOutput(ss[i].est, m, r.X, y) IN
       [r EXCEPT
          !.X = out[1],
          !.y = IF m \in {"sample", "fit_sample"} THEN out[2] ELSE @,
          !.learned = IF m \in Fitting THEN [@ EXCEPT ![i] = m] ELSE @,
          !.calls = Append(@, [step |-> i, method |-> m, X |-> r.X, y |-> y,
                               params |-> params])]

(* --------------------------- _pre_transform --------------------------- *)

\* lines 142-144: one key of fit_params
SplitParam(r, pname) ==
  LET parts == str_split(pname) IN
  \* step, param = pname.split('__', 1) does not unpack a one-part list
  IF Len(parts) # 2 THEN Raise(r, "ValueError", 0, "split")
  \* fit_params_steps[step] of a name that is no step
  ELSE IF parts[1] \notin DOMAIN r.fps THEN Raise(r, "KeyError", 0, "split")
  ELSE [r EXCEPT !.fps[parts[1]] = @ \cup {parts[2]}]

RECURSIVE SplitLoop(_, _, _)
SplitLoop(r, params, k) ==
  IF k > Len(params) \/ r.status # "ok" THEN r
  ELSE SplitLoop(SplitParam(r, params[k]), params, k + 1)

\* Lines 148-154 with the tests for fit_transform and fit_sample exchanged.
FitStepSampleFirst(ss, r, i) ==
  LET t == ss[i].est
      p == r.fps[ss[i].name] IN
  IF hasattr(t, "fit_sample") THEN Call(ss, r, i, "fit_sample", r.y, p)
  ELSE IF hasattr(t, "fit_transform") THEN Call(ss, r, i, "fit_transform", r.y, p)
  ELSE Call(ss, Call(ss, r, i, "fit", r.y, p), i, "transform", None, {})

\* lines 148-154: fit one intermediate step and pass the data through it
FitStep(ss, r, i) ==
  LET t == ss[i].est
      p == r.fps[ss[i].name] IN
  IF hasattr(t, "fit_transform") THEN Call(ss, r, i, "fit_transform", r.y, p)
  ELSE IF hasattr(t, "fit_sample") THEN Call(ss, r, i, "fit_sample", r.y, p)
  ELSE Call(ss, Call(ss, r, i, "fit", r.y, p), i, "transform", None, {})

\* lines 147-154: for name, transform in self.steps[:-1]
RECURSIVE FitLoop(_, _, _)
FitLoop(ss, r, i) ==
  IF i >= Len(ss) \/ r.status # "ok" THEN r
  ELSE FitLoop(ss, FitStep(ss, r, i), i + 1)

_pre_transform(ss, lrn, X, y, fit_params) ==
  FitLoop(ss, SplitLoop(Start(ss, lrn, X, y), fit_params, 1), 1)

\* fit_params_steps[self.steps[-1][0]]
FinalParams(ss, r) == r.fps[ss[Len(ss)].name]

(* ------------------------- the final estimator ------------------------ *)

\* A method without the decorator.
NotDecorated(ss, m) == TRUE

\* @if_delegate_has_method(delegate='_final_estimator'): the pipeline has the
\* method only if the final step has it
if_delegate_has_method(ss, m) == hasattr(ss[Len(ss)].est, m)

(* ----------------------------- inference ------------------------------ *)

\* Lines 228-231 calling fit_transform where the code calls transform.
TransformStepRefit(ss, r, i) ==
  IF hasattr(ss[i].est, "fit_sample") THEN r
  ELSE Call(ss, r, i, "fit_transform", None, {})

\* lines 228-231: a step that has fit_sample is passed over, any other step
\* transforms the data
TransformStep(ss, r, i) ==
  IF hasattr(ss[i].est, "fit_sample") THEN r
  ELSE Call(ss, r, i, "transform", None, {})

\* for name, transform in self.steps[:last]
RECURSIVE TransformLoop(_, _, _, _)
TransformLoop(ss, r, i, last) ==
  IF i > last \/ r.status # "ok" THEN r
  ELSE TransformLoop(ss, TransformStep(ss, r, i), i + 1, last)

\* sample, predict, predict_proba, decision_function, predict_log_proba, score:
\* the steps before the last, then the method m of the last step, with y when
\* the method takes it
Delegate(ss, lrn, m, X, y) ==
  IF ~if_delegate_has_method(ss, m)
  THEN Raise(Start(ss, lrn, X, y), "AttributeError", Len(ss), m)
  ELSE Call(ss, TransformLoop(ss, Start(ss, lrn, X, y), 1, Len(ss) - 1), Len(ss), m, y, {})

(* ------------------------- the public methods ------------------------- *)

Finish(op, X, y, params, r, value) ==
  /\ learned' = r.learned
  /\ result' = Outcome(op, r.status, X, y, params,
                       IF r.status = "ok" THEN value ELSE <<None, None>>,
                       r.calls, r.fault)
  /\ UNCHANGED <<pc, arg, made, steps>>

\* lines 157-172
fit ==
  /\ pc = "built"
  /\ \E in \in FitInputs :
       LET X == in.X
           y == in.y
           fit_params == in.fit_params
           pre == _pre_transform(steps, learned, X, y, fit_params)
           r == Call(steps, pre, Len(steps), "fit", pre.y, FinalParams(steps, pre))
       IN Finish("fit", X, y, fit_params, r, <<None, None>>)

\* lines 174-193
fit_transform ==
  /\ pc = "built"
  /\ \E in \in FitInputs :
       LET X == in.X
           y == in.y
           fit_params == in.fit_params
           pre == _pre_transform(steps, learned, X, y, fit_params)
           n == Len(steps)
           r == IF hasattr(steps[n].est, "fit_transform")
                THEN Call(steps, pre, n, "fit_transform", pre.y, FinalParams(steps, pre))
                ELSE Call(steps,
                          Call(steps, pre, n, "fit", pre.y, FinalParams(steps, pre)),
                          n, "transform", None, {})
       IN Finish("fit_transform", X, y, fit_params, r, <<r.X, None>>)

\* fit_sample (lines 195-212) and fit_predict (lines 254-273)
FitDelegate(m, X, y, fit_params) ==
  IF ~if_delegate_has_method(steps, m)
  THEN Raise(Start(steps, learned, X, y), "AttributeError", Len(steps), m)
  ELSE LET pre == _pre_transform(steps, learned, X, y, fit_params)
       IN Call(steps, pre, Len(steps), m, pre.y, FinalParams(steps, pre))

fit_sample ==
  /\ pc = "built"
  /\ \E in \in FitInputs :
       LET X == in.X
           y == in.y
           fit_params == in.fit_params
           r == FitDelegate("fit_sample", X, y, fit_params)
       IN Finish("fit_sample", X, y, fit_params, r, <<r.X, r.y>>)

fit_predict ==
  /\ pc = "built"
  /\ \E in \in FitInputs :
       LET X == in.X
           y == in.y
           fit_params == in.fit_params
           r == FitDelegate("fit_predict", X, y, fit_params)
       IN Finish("fit_predict", X, y, fit_params, r, <<r.X, None>>)

\* lines 214-232
sample ==
  /\ pc = "built"
  /\ \E X \in DataVals, y \in LabelVals :
       LET r == Delegate(steps, learned, "sample", X, y)
       IN Finish("sample", X, y, << >>, r, <<r.X, r.y>>)

\* lines 380-404
score ==
  /\ pc = "built"
  /\ \E X \in DataVals, y \in LabelVals :
       LET r == Delegate(steps, learned, "score", X, y)
       IN Finish("score", X, y, << >>, r, <<r.X, None>>)

Predicting(m) ==
  /\ pc = "built"
  /\ \E X \in DataVals :
       LET r == Delegate(steps, learned, m, X, None)
       IN Finish(m, X, None, << >>, r, <<r.X, None>>)

\* lines 234-252
predict == Predicting("predict")

\* lines 275-293
predict_proba == Predicting("predict_proba")

\* lines 295-313
decision_function == Predicting("decision_function")

\* lines 315-333
predict_log_proba == Predicting("predict_log_proba")

\* lines 335-353: the loop runs over every step, the last one too
transform ==
  /\ pc = "built"
  /\ \E X \in DataVals :
       LET r == IF ~if_delegate_has_method(steps, "transform")
                THEN Raise(Start(steps, learned, X, None), "AttributeError",
                           Len(steps), "transform")
                ELSE TransformLoop(steps, Start(steps, learned, X, None), 1, Len(steps))
       IN Finish("transform", X, None, << >>, r, <<r.X, None>>)

\* lines 373-377: for name, step in self.steps[::-1]. The loop's test reads
\* the name transform, which this function never binds and the module does
\* not define: the first pass of the loop raises NameError.
RECURSIVE InverseLoop(_, _, _)
InverseLoop(ss, r, i) ==
  IF i < 1 \/ r.status # "ok" THEN r
  ELSE InverseLoop(ss, Raise(r, "NameError", i, "transform"), i - 1)

\* lines 355-378, for a 2-d X (line 368 reshapes a 1-d X first)
inverse_transform ==
  /\ pc = "built"
  /\ \E X \in DataVals :
       LET r == IF ~if_delegate_has_method(steps, "inverse_transform")
                THEN Raise(Start(steps, learned, X, None), "AttributeError",
                           Len(steps), "inverse_transform")
                ELSE InverseLoop(steps, Start(steps, learned, X, None), Len(steps))
       IN Finish("inverse_transform", X, None, << >>, r, <<r.X, None>>)

(* --------------------------- specifications -------------------------- *)

\* Before the constructor has run.
New ==
  /\ pc = "new"
  /\ arg = << >>
  /\ made = << >>
  /\ steps = << >>
  /\ learned = << >>
  /\ result = Outcome("none", "ok", None, None, << >>, <<None, None>>, << >>, NoFault)

InitNext == Pipeline__init__ \/ make_pipeline

\* The constructors, on every list of up to MaxArgs steps or MaxEsts estimators.
InitSpec == New /\ [][InitNext]_vars

\* The names of the steps of the pipelines the methods are called on, by position.
PositionName(i) == <<CASE i = 1 -> "s" [] i = 2 -> "t" [] i = 3 -> "u" [] OTHER -> "v">>

\* Chains of the common classes: scalers, transformers and samplers, then a
\* classifier.
Chains ==
  {es \o <<"Classifier">> : es \in SeqsUpTo({"Scaler", "Transformer", "Sampler"}, MaxChain - 1)}

\* The step lists __init__ accepts: of up to MaxSteps steps of any class, and
\* the chains of up to MaxChain steps.
Pipelines ==
  {ss \in {[i \in 1 .. Len(es) |-> [name |-> PositionName(i), est |-> es[i]]] :
             es \in SeqsUpTo(Estimators, MaxSteps) \cup Chains} :
     InitOutcome(ss) = "ok"}

\* A pipeline as Pipeline(steps) leaves it.
Init ==
  \E ss \in Pipelines :
    /\ pc = "built"
    /\ arg = ss
    /\ made = << >>
    /\ steps = ss
    /\ learned = [i \in 1 .. Len(ss) |-> Unfitted]
    /\ result = Outcome("__init__", "ok", None, None, << >>, <<None, None>>, << >>, NoFault)

Next ==
  \/ fit
  \/ fit_transform
  \/ fit_sample
  \/ fit_predict
  \/ sample
  \/ score
  \/ predict
  \/ predict_proba
  \/ decision_function
  \/ predict_log_proba
  \/ transform
  \/ inverse_transform

\* The methods of a constructed pipeline, called in any order.
Spec == Init /\ [][Next]_vars

(* ------------------------------ claims -------------------------------- *)

FitOps == {"fit", "fit_transform", "fit_sample", "fit_predict"}

InferenceOps ==
  {"predict", "predict_proba", "decision_function", "predict_log_proba",
   "sample", "transform", "score"}

Final == steps[Len(steps)].est

\* The calls of the last operation made on step i.
CallsOn(i) == SelectSeq(result.calls, LAMBDA c : c.step = i)

(* C1 *)

C1_Invertible(e) ==
  {"transform", "inverse_transform"} \subseteq Caps(e) /\ "fit_sample" \notin Caps(e)

\* transform of every step in step order, applied by hand
RECURSIVE C1_Forward(_, _, _)
C1_Forward(ss, x, i) ==
  IF i > Len(ss) THEN x
  ELSE C1_Forward(ss, MethodOutput(ss[i].est, "transform", x, None)[1], i + 1)

\* C1: on a pipeline whose steps are all invertible (transform and
\* inverse_transform, no fit_sample), inverse_transform completes without
\* error, returns the X whose transform through the pipeline is its input,
\* and has called each step's inverse_transform in reverse step order.
C1_InverseTransformIsInverse ==
  (pc = "built" /\ result.op = "inverse_transform"
   /\ \A i \in 1 .. Len(steps) : C1_Invertible(steps[i].est))
  => /\ result.status = "ok"
     /\ \A x \in DataVals :
          C1_Forward(steps, x, 1) = result.X => result.value = <<x, None>>
     /\ Len(result.calls) = Len(steps)
     /\ \A k \in 1 .. Len(result.calls) :
          /\ result.calls[k].step = Len(steps) + 1 - k
          /\ result.calls[k].method = "inverse_transform"

(* C2 *)

C2_Lower(ests, i) == lower(TypeName(ests[i]))

\* The name of estimator i when a name that occurs more than once is numbered
\* downwards from its first occurrence: the lowercased type name, then "-"
\* and the number of its occurrences from position i on.
C2_Down(ests, i) ==
  LET same == {j \in 1 .. Len(ests) : C2_Lower(ests, j) = C2_Lower(ests, i)} IN
  IF Cardinality(same) = 1 THEN C2_Lower(ests, i)
  ELSE C2_Lower(ests, i) \o <<"-">> \o FormatInt(Cardinality({j \in same : j >= i}))

\* The same numbered upwards: "-" and the number of occurrences up to position i.
C2_Up(ests, i) ==
  LET same == {j \in 1 .. Len(ests) : C2_Lower(ests, j) = C2_Lower(ests, i)} IN
  IF Cardinality(same) = 1 THEN C2_Lower(ests, i)
  ELSE C2_Lower(ests, i) \o <<"-">> \o FormatInt(Cardinality({j \in same : j <= i}))

\* C2 as stated: _name_estimators keeps the estimators in their order, leaves
\* a lowercased type name that occurs once as it is, and numbers a name that
\* occurs k > 1 times from k at its first occurrence down to 1 at its last:
\* [Sm(), Sm(), Cl()] is named sm-2, sm-1, cl.
C2_NamesCountDown ==
  result.op = "make_pipeline"
  => /\ Len(arg) = Len(made)
     /\ \A i \in 1 .. Len(made) :
          arg[i].est = made[i] /\ arg[i].name = C2_Down(made, i)
     /\ made = <<"Sampler", "Sampler", "Classifier">>
        => [i \in 1 .. 3 |-> arg[i].name]
             = << <<"s", "m", "-", "2">>, <<"s", "m", "-", "1">>, <<"c", "l">> >>

\* C2 amended: _name_estimators keeps the estimators in their order, leaves a
\* lowercased type name that occurs once as it is, and numbers a name that
\* occurs k > 1 times from 1 at its first occurrence up to k at its last:
\* [Sm(), Sm(), Cl()] is named sm-1, sm-2, cl.
C2_NamesCountUp ==
  result.op = "make_pipeline"
  => /\ Len(arg) = Len(made)
     /\ \A i \in 1 .. Len(made) :
          arg[i].est = made[i] /\ arg[i].name = C2_Up(made, i)
     /\ made = <<"Sampler", "Sampler", "Classifier">>
        => [i \in 1 .. 3 |-> arg[i].name]
             = << <<"s", "m", "-", "1">>, <<"s", "m", "-", "2">>, <<"c", "l">> >>

C2_Witness ==
  /\ result.op = "make_pipeline"
  /\ made = <<"Sampler", "Sampler", "Classifier">>
  /\ arg[1].name = <<"s", "m", "-", "1">>
  /\ arg[2].name = <<"s", "m", "-", "2">>
  /\ arg[3].name = <<"c", "l">>

(* C3 *)

C3_DistinctNames ==
  \A i, j \in 1 .. Len(arg) : i # j => arg[i].name # arg[j].name

C3_IntermediatesValid ==
  \A i \in 1 .. Len(arg) - 1 :
    /\ Caps(arg[i].est) \cap {"fit", "fit_transform", "fit_sample"} # {}
    /\ Caps(arg[i].est) \cap {"transform", "sample"} # {}

\* C3 as stated: for a non-empty step list with distinct names, construction
\* succeeds iff every non-final step has a fit-like and a transform-or-sample
\* capability and the final step has a fit-like capability (fit,
\* fit_transform or fit_sample), and fails with a type error otherwise.
C3_FinalNeedsFitLike ==
  (pc # "new" /\ Len(arg) > 0 /\ C3_DistinctNames)
  => /\ pc = "built" <=>
          (C3_IntermediatesValid
           /\ Caps(arg[Len(arg)].est) \cap {"fit", "fit_transform", "fit_sample"} # {})
     /\ pc # "built" => result.status = "TypeError"

\* C3 amended: for a non-empty step list with distinct names, construction
\* succeeds iff every non-final step has a fit-like and a transform-or-sample
\* capability and the final step has fit itself, and fails with a type error
\* otherwise.
C3_FinalNeedsFit ==
  (pc # "new" /\ Len(arg) > 0 /\ C3_DistinctNames)
  => /\ pc = "built" <=> (C3_IntermediatesValid /\ "fit" \in Caps(arg[Len(arg)].est))
     /\ pc = "built" => steps = arg /\ result.status = "ok"
     /\ pc # "built" => result.status = "TypeError"

\* A final step with fit_transform and without fit is refused.
C3_Witness ==
  /\ pc = "failed"
  /\ Len(arg) = 2
  /\ C3_DistinctNames
  /\ C3_IntermediatesValid
  /\ "fit_transform" \in Caps(arg[2].est)
  /\ "fit" \notin Caps(arg[2].est)
  /\ result.status = "TypeError"

(* C4 *)

\* C4: in an inference operation that ran to its end on a fitted pipeline, a
\* non-final step is skipped iff it was fitted by fit_sample; every other
\* non-final step has its transform applied once, in step order.
C4_SkippedIffResampled ==
  (pc = "built" /\ result.op \in InferenceOps /\ result.status = "ok"
   /\ \A i \in 1 .. Len(steps) : learned[i] # "none")
  => \A i \in 1 .. Len(steps) - 1 :
       /\ CallsOn(i) = << >> <=> learned[i] = "fit_sample"
       /\ learned[i] # "fit_sample"
          => Len(CallsOn(i)) = 1 /\ CallsOn(i)[1].method = "transform"

(* C5 *)

C5_Ops ==
  {"fit_transform", "fit_sample", "sample", "predict", "fit_predict", "predict_proba",
   "decision_function", "predict_log_proba", "transform", "inverse_transform", "score"}

\* C5 as stated: each of these operations, on a pipeline whose final step
\* does not have the method of the same name, raises the not-supported error
\* and returns no result.
C5_EveryOperationGuarded ==
  (pc = "built" /\ result.op \in C5_Ops /\ result.op \notin Caps(Final))
  => result.status = "AttributeError" /\ result.value = <<None, None>>

\* C5 amended: each of these operations except fit_transform, on a pipeline
\* whose final step does not have the method of the same name, raises the
\* not-supported error before any step is called and returns no result;
\* fit_transform on a final step without fit_transform goes on to the final
\* step's fit and then its transform: it returns a result if the final step
\* has transform, and fails on the missing transform, after the fit, if not.
C5_GuardedExceptFitTransform ==
  /\ (pc = "built" /\ result.op \in C5_Ops \ {"fit_transform"}
      /\ result.op \notin Caps(Final))
     => /\ result.status = "AttributeError"
        /\ result.fault = [step |-> Len(steps), method |-> result.op]
        /\ result.value = <<None, None>>
        /\ result.calls = << >>
  /\ (pc = "built" /\ result.op = "fit_transform" /\ "fit_transform" \notin Caps(Final)
      /\ result.status = "ok")
     => /\ "transform" \in Caps(Final)
        /\ [k \in 1 .. 2 |-> CallsOn(Len(steps))[k].method] = <<"fit", "transform">>
        /\ result.value[1] = MethodOutput(Final, "transform", CallsOn(Len(steps))[2].X, None)[1]
  /\ (pc = "built" /\ result.op = "fit_transform" /\ "fit_transform" \notin Caps(Final)
      /\ result.status = "AttributeError" /\ result.fault.step = Len(steps))
     => /\ "transform" \notin Caps(Final)
        /\ result.fault.method = "transform"
        /\ Len(CallsOn(Len(steps))) = 1
        /\ CallsOn(Len(steps))[1].method = "fit"
  /\ (pc = "built" /\ result.op = "fit_transform"
      /\ Caps(Final) \cap {"fit_transform", "transform"} = {})
     => result.status # "ok"

\* predict on a two-step pipeline whose final step has no predict
C5_Witness ==
  /\ pc = "built"
  /\ Len(steps) = 2
  /\ steps[1].est = "Scaler"
  /\ result.op = "predict"
  /\ "predict" \notin Caps(Final)
  /\ result.status = "AttributeError"

(* C6 *)

\* The (data, labels) pair that reaches step i when the steps are fitted by
\* hand on (X, y), one after the other.
RECURSIVE C6_Reaches(_, _, _, _)
C6_Reaches(ss, X, y, i) ==
  IF i = 1 THEN <<X, y>>
  ELSE LET before == C6_Reaches(ss, X, y, i - 1)
           e == ss[i - 1].est
       IN IF "fit_transform" \in Caps(e)
          THEN <<MethodOutput(e, "fit_transform", before[1], before[2])[1], before[2]>>
          ELSE IF "fit_sample" \in Caps(e)
          THEN MethodOutput(e, "fit_sample", before[1], before[2])
          ELSE <<MethodOutput(e, "transform", before[1], None)[1], before[2]>>

\* The calls made on step i by hand: (method, X, y)
C6_ByHand(ss, X, y, i) ==
  LET in == C6_Reaches(ss, X, y, i)
      e == ss[i].est
  IN IF i = Len(ss) THEN << <<"fit", in[1], in[2]>> >>
     ELSE IF "fit_transform" \in Caps(e) THEN << <<"fit_transform", in[1], in[2]>> >>
     ELSE IF "fit_sample" \in Caps(e) THEN << <<"fit_sample", in[1], in[2]>> >>
     ELSE << <<"fit", in[1], in[2]>>, <<"transform", in[1], None>> >>

\* C6: a fit(X, y) that returns has called the steps in list order, each
\* fitted exactly once on the (data, labels) pair its predecessor produced:
\* by fit_transform if the step has it, else by fit_sample (which replaces
\* data and labels), else by fit followed by transform; the final step's fit
\* comes last, on the pair the last non-final step left.
C6_FitInStepOrder ==
  (pc = "built" /\ result.op = "fit" /\ result.status = "ok")
  => /\ \A k \in 1 .. Len(result.calls) - 1 :
          result.calls[k].step <= result.calls[k + 1].step
     /\ \A i \in 1 .. Len(steps) :
          /\ [k \in 1 .. Len(CallsOn(i)) |->
                <<CallsOn(i)[k].method, CallsOn(i)[k].X, CallsOn(i)[k].y>>]
               = C6_ByHand(steps, result.X, result.y, i)
          /\ Cardinality({k \in 1 .. Len(CallsOn(i)) :
                            CallsOn(i)[k].method \in FitLike}) = 1
          /\ learned[i] \in FitLike

\* fit on scaler, sampler, classifier: the classifier is fitted on the
\* sampler's data and labels
C6_Witness ==
  /\ pc = "built"
  /\ result.op = "fit"
  /\ result.status = "ok"
  /\ Len(steps) = 3
  /\ steps[1].est = "Scaler"
  /\ steps[2].est = "Sampler"
  /\ Len(result.calls) = 3
  /\ result.calls[3].y # result.y

(* C7 *)

C7_DuplicateName == \E i, j \in 1 .. Len(arg) : i # j /\ arg[i].name = arg[j].name

\* C7: a step list in which two steps share a name is refused with the
\* duplicate-name ValueError whatever the capabilities of its steps.
C7_DuplicateNamesRaise ==
  (pc # "new" /\ C7_DuplicateName)
  => pc = "failed" /\ result.status = "ValueError" /\ steps = << >>

\* two steps of one name, neither of them a valid step
C7_Witness ==
  /\ pc = "failed"
  /\ C7_DuplicateName
  /\ \E i \in 1 .. Len(arg) - 1 : Caps(arg[i].est) \cap {"transform", "sample"} = {}
  /\ "fit" \notin Caps(arg[Len(arg)].est)
  /\ result.status = "ValueError"

(* C8 *)

C8_SepAt(key, i) == i + 1 <= Len(key) /\ key[i] = "_" /\ key[i + 1] = "_"

C8_Malformed(key) == \A i \in 1 .. Len(key) : ~C8_SepAt(key, i)

C8_Keys == {result.params[k] : k \in 1 .. Len(result.params)}

\* The step name of a well-formed key: what stands before its first "__".
C8_StepOf(key) ==
  LET i == CHOOSE i \in 1 .. Len(key) :
             C8_SepAt(key, i) /\ \A j \in 1 .. i - 1 : ~C8_SepAt(key, j)
  IN SubSeq(key, 1, i - 1)

\* The parameters the keys give to the step named name.
C8_ParamsOf(name) ==
  {p \in {SubSeq(key, Len(name) + 3, Len(key)) : key \in C8_Keys} :
     \E key \in C8_Keys :
       /\ ~C8_Malformed(key)
       /\ C8_StepOf(key) = name
       /\ key = name \o <<"_", "_">> \o p}

C8_StepNames == {steps[i].name : i \in 1 .. Len(steps)}

C8_Decorated == {"fit_sample", "fit_predict"}

\* C8 as stated: a fitting call with a key that has no "__" fails with a
\* value error before any step is called.
C8_MalformedKeyIsValueError ==
  (pc = "built" /\ result.op \in FitOps /\ \E key \in C8_Keys : C8_Malformed(key))
  => result.status = "ValueError" /\ result.calls = << >>

C8_SplitFails ==
  (pc = "built" /\ result.op \in FitOps
   /\ (result.op \in C8_Decorated => result.op \in Caps(Final))
   /\ \E key \in C8_Keys : C8_Malformed(key))
  => /\ result.status \in {"ValueError", "KeyError"}
     /\ result.calls = << >>
     /\ result.value = <<None, None>>
     /\ result.status = "KeyError"
        => \E key \in C8_Keys : ~C8_Malformed(key) /\ C8_StepOf(key) \notin C8_StepNames
     /\ (\A key \in C8_Keys : ~C8_Malformed(key) => C8_StepOf(key) \in C8_StepNames)
        => result.status = "ValueError"

C8_Delivered ==
  (pc = "built" /\ result.op \in FitOps
   /\ (result.op \in C8_Decorated => result.op \in Caps(Final))
   /\ \A key \in C8_Keys : ~C8_Malformed(key) /\ C8_StepOf(key) \in C8_StepNames)
  => /\ result.status \notin {"ValueError", "KeyError"}
     /\ \A k \in 1 .. Len(result.calls) :
          result.calls[k].params =
            IF result.calls[k].method \in Fitting
            THEN C8_ParamsOf(steps[result.calls[k].step].name)
            ELSE {}

C8_LearnedKept ==
  (result'.op \in FitOps /\ result'.status \in {"ValueError", "KeyError"})
  => learned' = learned

\* C8 amended: a fitting call (for fit_sample and fit_predict: one the final
\* step has the method for) with a key that has no "__" fails in the
\* parameter splitting, before any step is called and with every step's
\* learned state unchanged: with a value error, or with a key error when a
\* key whose prefix names no step is split first. A well-formed key "s__p" is
\* split at its first "__" and delivered only to the step named s, as p.
C8_SplitFailsBeforeFitting ==
  [](C8_SplitFails /\ C8_Delivered) /\ [][C8_LearnedKept]_vars

\* a key without "__" after a fit: nothing was called
C8_Witness ==
  /\ pc = "built"
  /\ result.op = "fit_transform"
  /\ Len(result.params) = 2
  /\ C8_Malformed(result.params[2])
  /\ result.status = "ValueError"
  /\ \A i \in 1 .. Len(steps) : learned[i] = "fit"

(* C9 *)

C9_Inference ==
  result'.op \in InferenceOps
  => /\ learned' = learned
     /\ steps' = steps
     /\ \A k \in 1 .. Len(result'.calls) : result'.calls[k].method \notin Fitting

\* C9: an inference operation calls no fit, fit_transform or fit_sample and
\* leaves every step's learned state and the step sequence as they were.
C9_InferenceFitsNothing == [][C9_Inference]_vars

\* score through a fitted scaler
C9_Witness ==
  /\ pc = "built"
  /\ result.op = "score"
  /\ result.status = "ok"
  /\ Len(steps) >= 2
  /\ \A i \in 1 .. Len(steps) : learned[i] \in FitLike
  /\ Len(result.calls) = Len(steps)

(* C10 *)

\* C10: on a pipeline the constructor accepted, fit and predict never call
\* on a non-final step a method the step does not have.
C10_ValidationSuffices ==
  (pc = "built" /\ result.op \in {"fit", "predict"})
  => ~(result.status = "AttributeError" /\ result.fault.step \in 1 .. Len(steps) - 1)

====
